---- MODULE Spec2Model ----
(***************************************************************************)
(* The NDI marker pipeline of src/NDI_data_process.py: main() runs         *)
(* clean_csv, label_markers and interpolate_data in this order on one      *)
(* recording.  A frame (one row of the cleaned file) is a sequence of      *)
(* num_points 3D points; the triple (0,0,0) stands for "no detection".     *)
(* Coordinates are integers, so that the gate test dist < max is decided   *)
(* exactly on squared distances.                                           *)
(*                                                                         *)
(* The actuator script of src/inspire_actuator_control.py: main() opens    *)
(* the serial port, starts the logging thread (log_data_loop), runs its    *)
(* command sequence, stops the logging and closes the port.  Both threads  *)
(* use the one port `ser`; a step of a thread is one call on the port or   *)
(* on the log file.                                                        *)
(***************************************************************************)
EXTENDS Integers, Sequences, FiniteSets, TLC

VARIABLES
    pc,                  \* position of main(): clean, label, loop, interpolate, done
    num_points,          \* raw point columns of the cleaned file (len(df.columns) / 3)
    nrows,               \* len(df)
    feed,                \* the recording: Free (any frame per row) or one frame repeated
    max_position_change, \* label_markers' parameter
    origin_rate,         \* ORIGINAL_FRAME_RATE
    target_rate,         \* DESIRED_FRAME_RATE
    idx,                 \* loop index of label_markers
    prev_pos,            \* prev_pos['marker1'], prev_pos['marker2']
    row,                 \* the row examined last: labelled.iloc[idx] as read
    distances,           \* candidate list of the frame examined last
    labelled,            \* the DataFrame `labelled`, rows 0 .. idx-1 (row 0: Unread)
    clean_file,          \* clean_output was written by this run
    labelled_file,       \* content of labelled_output (NoFile when absent)
    labelled_written,    \* labelled_output was written by this run
    interp_file,         \* content of interpolated_output (NoFile when absent)
    outcome,             \* how label_markers ended
    error,               \* the exception main() caught, "none" if none
    lost_frame,          \* frame index carried by the RuntimeError
    ser,                 \* the serial port: state, bytes written, input buffer
    logging_active,      \* global flag of the logging thread
    log_thread,          \* position and locals of log_data_loop
    log_file_writer,     \* TRUE once csv.writer(log_file) was stored
    log_file,            \* the global log_file and the file object it named
    main_thread          \* position and locals of the actuator script's main()

vars == <<pc, num_points, nrows, feed, max_position_change, origin_rate,
          target_rate, idx, prev_pos, row, distances, labelled, clean_file,
          labelled_file, labelled_written, interp_file, outcome, error,
          lost_frame, ser, logging_active, log_thread, log_file_writer,
          log_file, main_thread>>

\* the state of the actuator script
serialVars == <<ser, logging_active, log_thread, log_file_writer, log_file,
                main_thread>>

\* the state of the NDI pipeline
ndiVars == <<pc, num_points, nrows, feed, max_position_change, origin_rate,
             target_rate, idx, prev_pos, row, distances, labelled, clean_file,
             labelled_file, labelled_written, interp_file, outcome, error,
             lost_frame>>

(***************************************************************************)
(* Bounds and input domains                                                *)
(***************************************************************************)
MaxRows == 4

\* rows of a stationary recording (specification SpecStationary)
MaxStationaryRows == 7

RawPointCounts == {1, 2, 3}

Sentinel == <<0, 0, 0>>

\* A 3-4-5 layout: PA-PC are 3 apart, PA-PB exactly 5, PB-PC more than 7.
PA == <<3, 0, 0>>

PB == <<0, 4, 0>>

PC == <<6, 0, 0>>

Points == {Sentinel, PA, PB, PC}

\* gates below, at and above the distances 3 (PA-PC) and 5 (PA-PB)
Gates == {1, 3, 5, 8}

\* <<ORIGINAL_FRAME_RATE, DESIRED_FRAME_RATE>>: the configured pair, and pairs
\* whose desired rate is a power of two.  For these the floating-point quotient
\* stop / step of np.arange is rounded to the exact quotient whenever that is an
\* integer (for 60, 100: compared for every length up to 3000000 rows), so the
\* integer arithmetic of ArangeLen computes what the code computes.
RatePairs == {<<60, 100>>, <<7, 1>>, <<3, 2>>, <<1, 4>>, <<5, 8>>}

\* feed = Free: every row of the recording is any frame
Free == <<>>

\* an absent file
NoFile == [exists |-> FALSE, rows |-> <<>>]

File(rows) == [exists |-> TRUE, rows |-> rows]

NoResult == [exists |-> FALSE, source_rows |-> 0, desired_time |-> <<>>,
             columns |-> <<>>]

None == <<>>

\* rows of the log file, header included (specification SpecSerial)
MaxLogRows == 2

ACTUATOR_IDS == <<3, 4, 5>>

\* a read or write frame 55 AA LEN ID CMD REG_L REG_H ...: the actuator and the
\* register it addresses; `by` records the thread whose call wrote it.  The
\* response to a frame carries the same fields and the register's data.
Frame(by, id, reg) == [by |-> by, id |-> id, reg |-> reg]

\* return None
NoValue == [by |-> "none", id |-> 0, reg |-> "none"]

\* ser = None
NoPort == [state |-> "None", out |-> <<>>, in_waiting |-> <<>>]

\* log_file = None, no file object yet
NoLogFile == [ref |-> FALSE, closed |-> FALSE, rows |-> 0]

\* a thread that does not run
NotStarted == [pc |-> "unstarted", step |-> 0, reg |-> "none",
               call |-> NoValue, ret |-> NoValue, log_row |-> <<>>]

\* a row of `labelled` that nothing has read yet
Unread == <<>>

Frames(k) == [1..k -> Points]

(***************************************************************************)
(* Configuration (src/config.py)                                           *)
(***************************************************************************)
NDI_MAX_POSITION_CHANGE == 5

NDI_ORIGINAL_FRAME_RATE == 60

NDI_DESIRED_FRAME_RATE == 100

MARKER_COUNT == 2

(***************************************************************************)
(* label_markers: helpers                                                  *)
(***************************************************************************)
Sq(a) == a * a

\* np.linalg.norm(marker - prev_marker), squared
Dist2(p, q) == Sq(p[1] - q[1]) + Sq(p[2] - q[2]) + Sq(p[3] - q[3])

\* dist < max_position_change
WithinGate(p, q, gate) == Dist2(p, q) < Sq(gate)

\* not (x == 0 and y == 0 and z == 0)
IsDetection(p) == ~(p[1] = 0 /\ p[2] = 0 /\ p[3] = 0)

\* a grouping that keeps the undetected points
Markers_KeepSentinel(frame) == frame

\* markers: the detections of a row, in column order
Markers(frame) == SelectSeq(frame, IsDetection)

\* The double loop "for marker in markers: for marker_id, prev_marker in prev_pos.items()"
\* visits pair number k (0-based) = (marker k \div 2 + 1, identity k % 2 + 1).
AllPairs(markers, prev) ==
    [k \in 1..(2 * Len(markers)) |->
        [marker    |-> markers[((k - 1) \div 2) + 1],
         marker_id |-> ((k - 1) % 2) + 1,
         prev      |-> prev[((k - 1) % 2) + 1]]]

Candidates(markers, prev, gate) ==
    LET Keep(c) == c.prev # None /\ WithinGate(c.marker, c.prev, gate)
    IN  SelectSeq(AllPairs(markers, prev), Keep)

\* a check that only rejects frames with too few candidates
TrackLost_TooFewOnly(cands) == Len(cands) < 2

\* if len(distances) != 2: raise RuntimeError
TrackLost(cands) == Len(cands) # 2

\* an assignment led by the second candidate's identity
Bound_BySecond(cands) ==
    [i \in 1..2 |-> IF i = cands[2].marker_id THEN cands[2].marker ELSE cands[1].marker]

\* the assignment of the first candidate's identity and, by elimination, the other
Bound(cands) ==
    LET first == cands[1].marker_id
    IN  [i \in 1..2 |-> IF i = first THEN cands[1].marker ELSE cands[2].marker]

\* labelled.at[idx, 'x1'..'z2'] = ...: the first two points of the row are replaced
WriteRow(frame, bound) ==
    [c \in 1..Len(frame) |-> IF c <= 2 THEN bound[c] ELSE frame[c]]

\* a save that forgets to drop the extra raw columns
Truncate_KeepAll(rows) == rows

\* labelled.iloc[:, :6]
Truncate(rows) == [r \in 1..Len(rows) |-> SubSeq(rows[r], 1, 2)]

\* the rows the recording can hold at the next index
RowChoices == IF feed = Free THEN Frames(num_points) ELSE {feed}

(***************************************************************************)
(* interpolate_data: helpers                                               *)
(***************************************************************************)
CeilDiv(a, b) == (a + b - 1) \div b

\* a length that drops the partial period: int(stop / step)
ArangeLen_Floor(n, orate, trate) == ((n - 1) * trate) \div orate

\* a time axis that includes its stop value, as np.linspace would
ArangeLen_Inclusive(n, orate, trate) == (((n - 1) * trate) \div orate) + 1

\* len(np.arange(0, original_time[-1], 1/DESIRED_FRAME_RATE)) with
\* original_time[-1] = (n-1)/ORIGINAL_FRAME_RATE: ceil(stop / step)
ArangeLen(n, orate, trate) == CeilDiv((n - 1) * trate, orate)

\* desired_time, as the indices j of the timestamps j / DESIRED_FRAME_RATE
DesiredTime(n, orate, trate) == [k \in 1..ArangeLen(n, orate, trate) |-> k - 1]

\* df[column]: the samples of column c of the rows, c in x1,y1,z1,x2,y2,z2
Column(rows, c) ==
    [r \in 1..Len(rows) |-> rows[r][(c + 2) \div 3][((c - 1) % 3) + 1]]

\* f(desired_time) with f = interp1d(original_time, y, kind='cubic'): at
\* each desired timestamp the value of the interpolant fitted to y, kept as
\* the term (samples fitted, timestamp)
Interp1d(y, times) == [j \in 1..Len(times) |-> [fit |-> y, at |-> times[j]]]

\* a resampling that smooths every column with its right-hand neighbour
ResampleColumn_Smoothed(rows, c, times) ==
    Interp1d([r \in 1..Len(rows) |->
                 Column(rows, c)[r] + Column(rows, (c % 6) + 1)[r]], times)

\* interpolated_data[column] = f(desired_time), one column at a time
ResampleColumn(rows, c, times) == Interp1d(Column(rows, c), times)

\* a fit that accepts any two samples, as kind='linear' would
CubicFitFails_Linear(n) == n < 2

\* interp1d(kind='cubic') raises ValueError on fewer than order + 1 = 4 samples
CubicFitFails(n) == n < 4

(***************************************************************************)
(* Initial states                                                          *)
(***************************************************************************)
\* the state of main() before the first stage, output folders empty
\* the module-level globals of the actuator script, before main() runs
InitGlobals ==
    /\ ser = NoPort
    /\ logging_active = FALSE
    /\ log_thread = NotStarted
    /\ log_file_writer = FALSE
    /\ log_file = NoLogFile
    /\ main_thread = NotStarted

InitLocals ==
    /\ pc = "clean"
    /\ idx = 0
    /\ prev_pos = <<None, None>>
    /\ row = <<>>
    /\ distances = <<>>
    /\ labelled = <<>>
    /\ clean_file = FALSE
    /\ labelled_file = NoFile
    /\ labelled_written = FALSE
    /\ interp_file = NoResult
    /\ outcome = "none"
    /\ error = "none"
    /\ lost_frame = -1

\* any recording of at most MaxRows frames, under the configuration of config.py
Init ==
    /\ InitLocals
    /\ InitGlobals
    /\ num_points \in RawPointCounts
    /\ nrows \in 0..MaxRows
    /\ feed = Free
    /\ max_position_change = NDI_MAX_POSITION_CHANGE
    /\ origin_rate = NDI_ORIGINAL_FRAME_RATE
    /\ target_rate = NDI_DESIRED_FRAME_RATE

\* frames that hold exactly two detections, at distinct coordinates
StationaryFrames ==
    {f \in Frames(2) \cup Frames(3) :
        Len(Markers(f)) = 2 /\ Markers(f)[1] # Markers(f)[2]}

\* a recording whose frames are all the same stationary frame, under any gate
\* of Gates and any pair of rates of RatePairs
InitStationary ==
    /\ InitLocals
    /\ InitGlobals
    /\ feed \in StationaryFrames
    /\ num_points = Len(feed)
    /\ nrows \in 0..MaxStationaryRows
    /\ max_position_change \in Gates
    /\ \E r \in RatePairs : origin_rate = r[1] /\ target_rate = r[2]

(***************************************************************************)
(* main(): clean_csv(file_path, clean_output)                              *)
(***************************************************************************)
CleanCsv ==
    /\ pc = "clean"
    /\ clean_file' = TRUE
    /\ pc' = "label"
    /\ UNCHANGED serialVars
    /\ UNCHANGED <<num_points, nrows, feed, max_position_change, origin_rate,
                   target_rate, idx, prev_pos, row, distances, labelled,
                   labelled_file, labelled_written, interp_file, outcome,
                   error, lost_frame>>

(***************************************************************************)
(* label_markers, lines 137-151: read, column check, copy                  *)
(***************************************************************************)
LabelStart ==
    /\ pc = "label"
    /\ IF 3 * num_points < 6
       THEN /\ outcome' = "NotEnoughColumns"
            /\ pc' = "interpolate"
            /\ UNCHANGED <<idx, labelled>>
       ELSE /\ idx' = 1
            /\ pc' = "loop"
            \* the loop starts at row 1: row 0 is read by the save alone
            /\ labelled' = IF nrows = 0 THEN <<>> ELSE <<Unread>>
            /\ UNCHANGED outcome
    /\ UNCHANGED serialVars
    /\ UNCHANGED <<num_points, nrows, feed, max_position_change, origin_rate,
                   target_rate, prev_pos, row, distances, clean_file,
                   labelled_file, labelled_written, interp_file, error,
                   lost_frame>>

(***************************************************************************)
(* label_markers, lines 154-214: one iteration of the loop                 *)
(***************************************************************************)
LabelRow ==
    /\ pc = "loop"
    /\ idx < nrows
    /\ \E frame \in RowChoices :
        LET markers == Markers(frame)
            cands   == Candidates(markers, prev_pos, max_position_change)
        IN  /\ row' = frame
            /\ IF idx = 1
               THEN IF Len(markers) # 2
                    THEN \* print Warning; return
                         /\ outcome' = "InitializationFailure"
                         /\ pc' = "interpolate"
                         /\ labelled' = <<>>
                         /\ UNCHANGED <<idx, prev_pos, distances, error, lost_frame>>
                    ELSE /\ prev_pos' = <<markers[1], markers[2]>>
                         /\ labelled' = Append(labelled, frame)
                         /\ idx' = idx + 1
                         /\ UNCHANGED <<pc, distances, outcome, error, lost_frame>>
               ELSE IF TrackLost(cands)
                    THEN \* raise RuntimeError, caught by main()
                         /\ distances' = cands
                         /\ outcome' = "IdentityLost"
                         /\ error' = "RuntimeError"
                         /\ lost_frame' = idx
                         /\ pc' = "done"
                         /\ labelled' = <<>>
                         /\ UNCHANGED <<idx, prev_pos>>
                    ELSE /\ distances' = cands
                         /\ labelled' = Append(labelled, WriteRow(frame, Bound(cands)))
                         /\ prev_pos' = <<Bound(cands)[1], Bound(cands)[2]>>
                         /\ idx' = idx + 1
                         /\ UNCHANGED <<pc, outcome, error, lost_frame>>
    /\ UNCHANGED serialVars
    /\ UNCHANGED <<num_points, nrows, feed, max_position_change, origin_rate,
                   target_rate, clean_file, labelled_file, labelled_written,
                   interp_file>>

(***************************************************************************)
(* label_markers, lines 216-228: truncate and save                         *)
(***************************************************************************)
LabelWrite ==
    /\ pc = "loop"
    /\ idx >= nrows
    /\ IF nrows = 0
       THEN labelled_file' = File(Truncate(labelled))
       ELSE \E frame \in RowChoices :
               labelled_file' = File(Truncate([labelled EXCEPT ![1] = frame]))
    /\ labelled_written' = TRUE
    /\ outcome' = "Labelled"
    /\ pc' = "interpolate"
    \* the function returns: its locals are gone
    /\ labelled' = <<>>
    /\ idx' = 0
    /\ prev_pos' = <<None, None>>
    /\ row' = <<>>
    /\ distances' = <<>>
    /\ UNCHANGED serialVars
    /\ UNCHANGED <<num_points, nrows, feed, max_position_change, origin_rate,
                   target_rate, clean_file, interp_file, error, lost_frame>>

(***************************************************************************)
(* interpolate_data(labelled_output, interpolated_output)                  *)
(***************************************************************************)
InterpolateData ==
    /\ pc = "interpolate"
    /\ pc' = "done"
    /\ IF ~labelled_file.exists
       THEN \* pd.read_csv raises FileNotFoundError
            /\ error' = "FileNotFoundError"
            /\ UNCHANGED interp_file
       ELSE LET n == Len(labelled_file.rows) IN
            IF n = 0
            THEN \* original_time[-1] on an empty array
                 /\ error' = "IndexError"
                 /\ UNCHANGED interp_file
            ELSE IF CubicFitFails(n)
            THEN \* interp1d(kind='cubic') needs at least 4 points
                 /\ error' = "ValueError"
                 /\ UNCHANGED interp_file
            ELSE LET desired_time == DesiredTime(n, origin_rate, target_rate) IN
                 /\ interp_file' =
                       [exists |-> TRUE, source_rows |-> n,
                        desired_time |-> desired_time,
                        columns |-> [c \in 1..6 |->
                            ResampleColumn(labelled_file.rows, c, desired_time)]]
                 /\ UNCHANGED error
    /\ UNCHANGED serialVars
    /\ UNCHANGED <<num_points, nrows, feed, max_position_change, origin_rate,
                   target_rate, idx, prev_pos, row, distances, labelled, clean_file,
                   labelled_file, labelled_written, outcome, lost_frame>>

Next == CleanCsv \/ LabelStart \/ LabelRow \/ LabelWrite \/ InterpolateData

Spec == Init /\ [][Next]_vars

SpecStationary == InitStationary /\ [][Next]_vars

(***************************************************************************)
(* inspire_actuator_control.py: main() and the logging thread              *)
(***************************************************************************)
\* the calls of main()'s try block on the port, in order
MainSequence ==
    << Frame("main", ACTUATOR_IDS[1], "targetLocation"),
       Frame("main", ACTUATOR_IDS[1], "actualLocation"),
       Frame("main", ACTUATOR_IDS[1], "actualForce"),
       Frame("main", ACTUATOR_IDS[2], "targetLocation"),
       Frame("main", ACTUATOR_IDS[2], "actualLocation"),
       Frame("main", ACTUATOR_IDS[2], "actualForce"),
       Frame("main", ACTUATOR_IDS[1], "targetLocation"),
       Frame("main", ACTUATOR_IDS[1], "actualLocation") >>

\* the value a get_actual_* call for actuator_id makes of the buffer read_all
\* returned: bytes 7 and 8 of the buffer, which are the data of its first
\* response, whether the echoed ID and CMD match (lines 217-221) or not
\* (_parse_2_byte_response(response), offset 7)
ParseResponse(response, actuator_id) ==
    IF response = <<>>
    THEN NoValue
    ELSE IF response[1].id = actuator_id
         THEN response[1]
         ELSE response[1]

\* time.sleep(0.05) between ser.write and ser.read_all: the actuator has
\* answered the frame of this call by the time the buffer is read
Answered(by) == \A k \in 1..Len(ser.out) : ser.out[k].by # by

\* log_thread.is_alive()
IsAlive == log_thread.pc \notin {"unstarted", "dead"}

\* stop_logging has returned (or was never needed: it runs in main's finally)
StopLoggingReturned == main_thread.pc \in {"close_serial_port", "done"}

InitSerial ==
    /\ InitLocals
    /\ num_points = MARKER_COUNT
    /\ nrows = 0
    /\ feed = Free
    /\ max_position_change = NDI_MAX_POSITION_CHANGE
    /\ origin_rate = NDI_ORIGINAL_FRAME_RATE
    /\ target_rate = NDI_DESIRED_FRAME_RATE
    /\ ser = NoPort
    /\ logging_active = FALSE
    /\ log_thread = NotStarted
    /\ log_file_writer = FALSE
    /\ log_file = NoLogFile
    /\ main_thread = [NotStarted EXCEPT !.pc = "open_serial_port"]

\* open_serial_port(): the port opens, or main() returns
OpenSerialPort ==
    /\ main_thread.pc = "open_serial_port"
    /\ \/ /\ ser' = [NoPort EXCEPT !.state = "open"]
          /\ main_thread' = [main_thread EXCEPT !.pc = "start_logging"]
       \/ /\ main_thread' = [main_thread EXCEPT !.pc = "done"]
          /\ UNCHANGED ser
    /\ UNCHANGED <<logging_active, log_thread, log_file_writer, log_file>>
    /\ UNCHANGED ndiVars

\* start_logging(): open the file, write the header, raise the flag, start
\* the thread; or IOError on open, which leaves all of them as they were
StartLogging ==
    /\ main_thread.pc = "start_logging"
    /\ main_thread' = [main_thread EXCEPT !.pc = "sequence", !.step = 1,
                                          !.reg = "write"]
    /\ \/ /\ log_file' = [ref |-> TRUE, closed |-> FALSE, rows |-> 1]
          /\ log_file_writer' = TRUE
          /\ logging_active' = TRUE
          /\ log_thread' = [NotStarted EXCEPT !.pc = "while"]
       \/ UNCHANGED <<log_file, log_file_writer, logging_active, log_thread>>
    /\ UNCHANGED ser
    /\ UNCHANGED ndiVars

\* main(): set_target_position(actuator_id, position_value).  It returns no
\* value; inspire_LASF.position "handles its own serial write/read_all": its
\* frame and the answer stay inside the call, and its read_all empties the
\* input buffer
SetTargetPosition ==
    /\ main_thread.pc = "sequence"
    /\ main_thread.reg = "write"
    /\ MainSequence[main_thread.step].reg = "targetLocation"
    /\ ser' = [ser EXCEPT !.in_waiting = <<>>]
    /\ main_thread' = [main_thread EXCEPT !.step = @ + 1, !.call = NoValue,
                                          !.ret = NoValue]
    /\ UNCHANGED <<logging_active, log_thread, log_file_writer, log_file>>
    /\ UNCHANGED ndiVars

\* main(): ser.write(frame) of the get_actual_* call at main_thread.step
MainWrite ==
    /\ main_thread.pc = "sequence"
    /\ main_thread.reg = "write"
    /\ MainSequence[main_thread.step].reg # "targetLocation"
    /\ LET frame == MainSequence[main_thread.step] IN
       /\ ser' = [ser EXCEPT !.out = Append(@, frame)]
       /\ main_thread' = [main_thread EXCEPT !.reg = "read", !.call = frame,
                                             !.ret = NoValue]
    /\ UNCHANGED <<logging_active, log_thread, log_file_writer, log_file>>
    /\ UNCHANGED ndiVars

\* main(): ser.read_all() of the get_actual_* call at main_thread.step and
\* its return; after the last call, the finally block
MainRead ==
    /\ main_thread.pc = "sequence"
    /\ main_thread.reg = "read"
    /\ Answered("main")
    /\ LET frame == MainSequence[main_thread.step]
           response == ser.in_waiting
       IN  /\ ser' = [ser EXCEPT !.in_waiting = <<>>]
           /\ main_thread' =
                [main_thread EXCEPT
                    !.ret = ParseResponse(response, frame.id),
                    !.reg = "write",
                    !.step = IF @ < Len(MainSequence) THEN @ + 1 ELSE @,
                    !.pc = IF main_thread.step < Len(MainSequence)
                           THEN "sequence" ELSE "stop_logging"]
    /\ UNCHANGED <<logging_active, log_thread, log_file_writer, log_file>>
    /\ UNCHANGED ndiVars

\* except KeyboardInterrupt: the sequence is abandoned for the finally block
KeyboardInterrupt ==
    /\ main_thread.pc = "sequence"
    /\ main_thread' = [main_thread EXCEPT !.pc = "stop_logging"]
    /\ UNCHANGED <<ser, logging_active, log_thread, log_file_writer, log_file>>
    /\ UNCHANGED ndiVars

\* stop_logging(): lower the flag and, if the thread is alive, join it
StopLogging ==
    /\ main_thread.pc = "stop_logging"
    /\ IF logging_active
       THEN /\ logging_active' = FALSE
            /\ main_thread' = [main_thread EXCEPT
                                  !.pc = IF IsAlive THEN "join"
                                         ELSE "close_log_file"]
       ELSE /\ main_thread' = [main_thread EXCEPT !.pc = "close_log_file"]
            /\ UNCHANGED logging_active
    /\ UNCHANGED <<ser, log_thread, log_file_writer, log_file>>
    /\ UNCHANGED ndiVars

\* log_thread.join(timeout=2) returns because the thread has ended
Join ==
    /\ main_thread.pc = "join"
    /\ ~IsAlive
    /\ main_thread' = [main_thread EXCEPT !.pc = "close_log_file"]
    /\ UNCHANGED <<ser, logging_active, log_thread, log_file_writer, log_file>>
    /\ UNCHANGED ndiVars

\* log_thread.join(timeout=2) returns because 2 seconds have passed; the
\* result is not looked at
JoinTimeout ==
    /\ main_thread.pc = "join"
    /\ IsAlive
    /\ main_thread' = [main_thread EXCEPT !.pc = "close_log_file"]
    /\ UNCHANGED <<ser, logging_active, log_thread, log_file_writer, log_file>>
    /\ UNCHANGED ndiVars

\* stop_logging(): if log_file: log_file.close(); log_file = None
\* (log_file_writer keeps the closed file)
CloseLogFile ==
    /\ main_thread.pc = "close_log_file"
    /\ log_file' = IF log_file.ref
                   THEN [log_file EXCEPT !.ref = FALSE, !.closed = TRUE]
                   ELSE log_file
    /\ main_thread' = [main_thread EXCEPT !.pc = "close_serial_port"]
    /\ UNCHANGED <<ser, logging_active, log_thread, log_file_writer>>
    /\ UNCHANGED ndiVars

\* close_serial_port(), then main() returns and the daemon thread ends with
\* the process
CloseSerialPort ==
    /\ main_thread.pc = "close_serial_port"
    /\ ser' = IF ser.state = "open" THEN [ser EXCEPT !.state = "closed"] ELSE ser
    /\ main_thread' = [main_thread EXCEPT !.pc = "done"]
    /\ UNCHANGED <<logging_active, log_thread, log_file_writer, log_file>>
    /\ UNCHANGED ndiVars

\* log_data_loop: the test of `while logging_active` and the start of a row
LogWhile ==
    /\ main_thread.pc # "done"
    /\ log_thread.pc = "while"
    /\ IF logging_active
       THEN /\ log_file.rows < MaxLogRows
            /\ log_thread' = [log_thread EXCEPT !.pc = "write", !.step = 1,
                                !.reg = "actualLocation", !.log_row = <<>>]
       ELSE log_thread' = [log_thread EXCEPT !.pc = "dead"]
    /\ UNCHANGED <<ser, logging_active, log_file_writer, log_file, main_thread>>
    /\ UNCHANGED ndiVars

\* the position of log_data_loop after a call returned: the force of the
\* same actuator, the position of the next one, or writerow; the cell added
\* to log_row is the reading ("value", whatever number it is) or 'N/A'
AfterCall(t, value) ==
    [t EXCEPT !.ret = value,
              !.log_row = Append(@, IF value = NoValue THEN "N/A" ELSE "value"),
              !.reg = IF t.reg = "actualLocation" THEN "actualForce"
                      ELSE "actualLocation",
              !.step = IF t.reg = "actualForce" /\ @ < Len(ACTUATOR_IDS)
                       THEN @ + 1 ELSE @,
              !.pc = IF t.reg = "actualForce" /\ t.step = Len(ACTUATOR_IDS)
                     THEN "writerow" ELSE "write"]

\* log_data_loop: ser.write(frame) of get_actual_position / get_actual_force;
\* on a closed port it raises, and the call returns None
LogWrite ==
    /\ main_thread.pc # "done"
    /\ log_thread.pc = "write"
    /\ LET frame == Frame("log", ACTUATOR_IDS[log_thread.step], log_thread.reg) IN
       IF ser.state = "open"
       THEN /\ ser' = [ser EXCEPT !.out = Append(@, frame)]
            /\ log_thread' = [log_thread EXCEPT !.pc = "read", !.call = frame,
                                                !.ret = NoValue]
       ELSE /\ log_thread' = AfterCall([log_thread EXCEPT !.call = frame], NoValue)
            /\ UNCHANGED ser
    /\ UNCHANGED <<logging_active, log_file_writer, log_file, main_thread>>
    /\ UNCHANGED ndiVars

\* log_data_loop: ser.read_all() of the call and its return value
LogRead ==
    /\ main_thread.pc # "done"
    /\ log_thread.pc = "read"
    /\ IF ser.state = "open"
       THEN /\ Answered("log")
            /\ ser' = [ser EXCEPT !.in_waiting = <<>>]
            /\ log_thread' = AfterCall(log_thread,
                                ParseResponse(ser.in_waiting, log_thread.call.id))
       ELSE /\ log_thread' = AfterCall(log_thread, NoValue)
            /\ UNCHANGED ser
    /\ UNCHANGED <<logging_active, log_file_writer, log_file, main_thread>>
    /\ UNCHANGED ndiVars

\* log_data_loop: if log_file_writer: writerow(log_row), then sleep; on a
\* closed file writerow raises ValueError and the thread ends
LogWriteRow ==
    /\ main_thread.pc # "done"
    /\ log_thread.pc = "writerow"
    /\ IF log_file_writer /\ log_file.closed
       THEN /\ log_thread' = [log_thread EXCEPT !.pc = "dead"]
            /\ UNCHANGED log_file
       ELSE /\ log_file' = IF log_file_writer
                           THEN [log_file EXCEPT !.rows = @ + 1]
                           ELSE log_file
            /\ log_thread' = [log_thread EXCEPT !.pc = "while"]
    /\ UNCHANGED <<ser, logging_active, log_file_writer, main_thread>>
    /\ UNCHANGED ndiVars

\* an actuator answers the oldest frame on the bus
DeviceRespond ==
    /\ ser.state = "open"
    /\ ser.out # <<>>
    /\ ser' = [ser EXCEPT !.out = Tail(@),
                          !.in_waiting = Append(@, Head(ser.out))]
    /\ UNCHANGED <<logging_active, log_thread, log_file_writer, log_file,
                   main_thread>>
    /\ UNCHANGED ndiVars

NextSerial ==
    \/ OpenSerialPort \/ StartLogging \/ SetTargetPosition
    \/ MainWrite \/ MainRead
    \/ KeyboardInterrupt \/ StopLogging \/ Join \/ JoinTimeout
    \/ CloseLogFile \/ CloseSerialPort
    \/ LogWhile \/ LogWrite \/ LogRead \/ LogWriteRow
    \/ DeviceRespond

SpecSerial == InitSerial /\ [][NextSerial]_vars

(***************************************************************************)
(* Properties                                                              *)
(***************************************************************************)
\* the ways label_markers ends without a Track
FatalOutcomes == {"NotEnoughColumns", "InitializationFailure", "IdentityLost"}

\* the fatal conditions of the tracker stage
TrackerFatal == {"InitializationFailure", "IdentityLost"}

\* the rows of the Track written by this run
Track == labelled_file.rows

\* C1 -- Initialization exactness: when frame 0 of the recording holds
\* marker_count-1 or marker_count+1 detections, label_markers ends in the
\* InitializationFailure error outcome: it never goes on to later frames and
\* never writes a Track.  Stated on recordings of marker_count point columns,
\* where row 0 of the Track shows all of frame 0.
C1_InitializationExact ==
    (labelled_written /\ nrows >= 1 /\ num_points = MARKER_COUNT)
    => Len(Markers(Track[1])) \notin {MARKER_COUNT - 1, MARKER_COUNT + 1}

\* C2 -- Identity continuity: at every frame after initialization that is
\* resolved, each identity's newly bound position lies strictly within
\* max_position_change of the position bound to it in the previous frame.
C2_IdentityContinuity ==
    [][(pc = "loop" /\ idx >= 2 /\ idx' = idx + 1)
        => \A i \in 1..MARKER_COUNT :
              WithinGate(prev_pos'[i], prev_pos[i], max_position_change)]_vars

\* C3 -- IdentityLost: the first frame after initialization whose candidate
\* list does not hold exactly 2 entries ends the run with the RuntimeError
\* carrying that frame's index; nothing runs afterwards and neither the Track
\* nor a resampled file is written.
C3_IdentityLost ==
    /\ [](error = "RuntimeError" =>
            /\ pc = "done" /\ outcome = "IdentityLost"
            /\ lost_frame = idx /\ idx >= 2
            /\ Len(distances) # 2
            /\ ~labelled_written /\ ~labelled_file.exists /\ ~interp_file.exists)
    /\ [][(pc = "loop" /\ idx >= 2 /\ idx < nrows /\ Len(distances') # 2)
            => (error' = "RuntimeError" /\ lost_frame' = idx /\ pc' = "done")]_vars
    /\ [][pc # "done"]_vars

C3_Witness ==
    error = "RuntimeError" /\ lost_frame = 2 /\ Len(distances) > 2

\* C4 -- No sentinel in the Track: no position of any row of the Track a run
\* has written is the sentinel (0,0,0).
C4_NoSentinelInTrack ==
    labelled_written =>
        \A r \in 1..Len(Track) : \A c \in 1..Len(Track[r]) : Track[r][c] # Sentinel

\* C5 -- Identity/column alignment: the detections of the initialization frame
\* are bound to identities 1, 2 in their order of appearance, and the row of
\* every frame examined (the initialization row included) holds in column
\* block i the position bound to identity i, the value of prev_pos[i] after
\* that frame.
C5_ColumnAlignment ==
    (pc = "loop" /\ idx >= 2) =>
        /\ \A i \in 1..MARKER_COUNT : labelled[idx][i] = prev_pos[i]
        /\ idx = 2 => prev_pos = Markers(labelled[2])

\* C6 -- Fatal propagation: once label_markers has ended in a fatal condition,
\* interpolate_data is never executed.
C6_FatalPropagation ==
    outcome \in TrackerFatal =>
        /\ error \notin {"FileNotFoundError", "IndexError", "ValueError"}
        /\ ~interp_file.exists

\* C7 -- All-or-nothing persistence: when the run has ended, either the Track
\* and the resampled trajectory were both written, or this run wrote no file.
C7_AllOrNothing ==
    pc = "done" =>
        \/ (labelled_written /\ interp_file.exists)
        \/ (~clean_file /\ ~labelled_written /\ ~interp_file.exists)

\* C8 -- Stationary end-to-end: for a recording whose frames all hold the same
\* two detections at distinct coordinates, under any positive gate, the
\* tracker succeeds and every row of the Track binds identity 1 to the first
\* detection and identity 2 to the second.
C8_Stationary ==
    /\ outcome \notin FatalOutcomes
    /\ labelled_written => \A r \in 1..Len(Track) : Track[r] = Markers(feed)

\* C9 -- Fixed cardinality: every row of a written Track holds exactly
\* marker_count points, whatever the number of raw point columns, and the
\* Track has as many rows as the recording.
C9_FixedCardinality ==
    labelled_written =>
        /\ Len(Track) = nrows
        /\ \A r \in 1..Len(Track) : Len(Track[r]) = MARKER_COUNT

C9_Witness ==
    labelled_written /\ num_points > MARKER_COUNT /\ nrows >= 3 /\ Len(Track) >= 3

\* C10 -- Target time axis: the resampled output of a track of N rows has
\* exactly one row for each integer j >= 0 with
\* j / target_rate < (N-1) / origin_rate, in increasing j.
C10_TargetTimeAxis ==
    interp_file.exists =>
        LET n  == interp_file.source_rows
            dt == interp_file.desired_time
        IN  /\ \A k \in 1..(Len(dt) - 1) : dt[k] < dt[k + 1]
            /\ {dt[k] : k \in 1..Len(dt)}
                 = {j \in 0..((n - 1) * target_rate) :
                        j * origin_rate < (n - 1) * target_rate}
            /\ dt[1] = 0
            /\ \A k \in 1..Len(dt) : dt[k] * origin_rate # (n - 1) * target_rate

\* a resampled output whose stop value falls exactly on a target timestamp
C10_Witness ==
    /\ interp_file.exists
    /\ Len(interp_file.desired_time) >= 5
    /\ ((interp_file.source_rows - 1) * target_rate) % origin_rate = 0

\* C11 (as claimed) -- the resampled output of a track of N >= 4 rows has
\* floor((N-1) * target_rate / origin_rate) rows.
C11_RowCountFloor ==
    interp_file.exists =>
        Len(interp_file.desired_time)
            = ((interp_file.source_rows - 1) * target_rate) \div origin_rate

\* C11 (amended) -- the resampled output of a track of N >= 4 rows has
\* ceil((N-1) * target_rate / origin_rate) rows: the least L with
\* L / target_rate >= (N-1) / origin_rate.  It is the floor only when
\* origin_rate divides (N-1) * target_rate.
C11_RowCountCeil ==
    interp_file.exists =>
        LET n == interp_file.source_rows
            L == Len(interp_file.desired_time)
        IN  /\ n >= 4
            /\ L * origin_rate >= (n - 1) * target_rate
            /\ (L - 1) * origin_rate < (n - 1) * target_rate

\* a resampled output whose last period is partial: one row more than the floor
C11_Witness ==
    /\ interp_file.exists
    /\ ((interp_file.source_rows - 1) * target_rate) % origin_rate # 0
    /\ Len(interp_file.desired_time)
         = (((interp_file.source_rows - 1) * target_rate) \div origin_rate) + 1

\* C12 -- InsufficientSamples: resampling a written Track of fewer than 4
\* rows (0 and 1 included) ends in an exception of interpolate_data and writes
\* no resampled output; a Track of 4 or more rows is resampled without error.
C12_InsufficientSamples ==
    (pc = "done" /\ labelled_written) =>
        IF Len(Track) < 4
        THEN error \in {"IndexError", "ValueError"} /\ ~interp_file.exists
        ELSE error = "none" /\ interp_file.exists

\* runs of both kinds have ended: this one with too few rows
C12_Witness ==
    pc = "done" /\ labelled_written /\ Len(Track) = 3 /\ error = "ValueError"

QualifyingPairs(frame, prev, gate) ==
    LET pairs == [k \in 1..(2 * Len(frame)) |->
                    <<frame[(k + 1) \div 2], 2 - (k % 2)>>]
        Qualifies(e) == /\ e[1] # Sentinel
                        /\ Dist2(e[1], prev[e[2]]) < gate * gate
    IN  SelectSeq(pairs, Qualifies)

\* C14 -- Candidate collection: the candidate list of every frame examined
\* after initialization holds one entry for each pair of a non-sentinel point
\* of the frame and an identity whose previous position is strictly within
\* max_position_change of it, points outer and identities inner, without
\* deduplication; no entry holds the sentinel.
C14_CandidateCollection ==
    [][(pc = "loop" /\ idx >= 2 /\ idx < nrows) =>
        /\ [k \in 1..Len(distances') |->
               <<distances'[k].marker, distances'[k].marker_id>>]
             = QualifyingPairs(row', prev_pos, max_position_change)
        /\ \A k \in 1..Len(distances') : distances'[k].marker # Sentinel]_vars

\* a frame with an undetected point inside the gate of identity 1's previous
\* position, and a detection entered for both identities, twice
C14_Witness ==
    /\ error = "RuntimeError"
    /\ row[1] = Sentinel
    /\ WithinGate(Sentinel, prev_pos[1], max_position_change)
    /\ Len(distances) = 4

\* C16 -- Distinct detections per identity: after every frame resolved
\* without IdentityLost, identities 1 and 2 are bound to two different
\* detections (columns) of that frame.
C16_DistinctDetections ==
    (pc = "loop" /\ idx >= 3) =>
        \E c1, c2 \in 1..Len(row) :
            /\ c1 # c2
            /\ IsDetection(row[c1]) /\ IsDetection(row[c2])
            /\ row[c1] = prev_pos[1] /\ row[c2] = prev_pos[2]

C17_ResponsePairing ==
    /\ main_thread.ret # NoValue => main_thread.ret = main_thread.call
    /\ log_thread.ret # NoValue => log_thread.ret = log_thread.call

\* C18 -- Logging shutdown: the logging thread writes no row to a closed log
\* file, and once stop_logging has returned it writes no further row and
\* puts no further frame on the serial port.
C18_LoggingShutdown ==
    [][/\ log_file.closed => log_file'.rows = log_file.rows
       /\ StopLoggingReturned =>
             /\ log_file'.rows = log_file.rows
             /\ ~(/\ Len(ser'.out) = Len(ser.out) + 1
                  /\ ser'.out[Len(ser'.out)].by = "log")]_vars

====
